---- MODULE Spec2Model ----
(***************************************************************************)
(* The ingestion watcher pipeline of kc_electron/src/electron.ts:          *)
(* the settings subscription that (re)binds a chokidar watcher and a       *)
(* setInterval timer, the watcher's 'add' handler that relocates a file    *)
(* and queues a FileModel, and the timer tick that sends the queue to the  *)
(* main window.                                                            *)
(***************************************************************************)
EXTENDS Integers, Sequences, FiniteSets, TLC

(* ------------------------------ bounds --------------------------------- *)
\* uuid.v4() values drawn over the whole run
MaxIds == 2
\* watchers / timers created over the whole run (enabling emissions)
MaxHandles == 2
\* files the user drops into the watched directory
MaxFiles == 2

(* --------------------------- environment ------------------------------- *)
\* A file name is its sequence of characters.
Files ==
    { <<"a", ".", "t">>, <<"n">>, <<".", "h">> }

\* fs.statSync(filePath) of a file of the watched directory: its byte count
\* and its three timestamps (all earlier than any clock reading of the run).
FileStat(f) ==
    [size  |-> Len(f) * 10,
     atime |-> 0 - Len(f),
     ctime |-> 0 - (Len(f) + 10),
     mtime |-> 0 - (Len(f) + 20)]

WatchLocation == "/watch"

\* The values the settings service emits on settingsService.ingest.
NullIngest ==
    [defined |-> FALSE, autoscan |-> FALSE, autoscanLocation |-> "",
     preserveTimestamps |-> FALSE, interval |-> 0]

IngestValue(a, l, p, i) ==
    [defined |-> TRUE, autoscan |-> a, autoscanLocation |-> l,
     preserveTimestamps |-> p, interval |-> i]

Ingests ==
    { NullIngest,
      IngestValue(FALSE, WatchLocation, TRUE, 1000),
      IngestValue(TRUE, "", FALSE, 1000),
      IngestValue(TRUE, WatchLocation, TRUE, 1000),
      IngestValue(TRUE, WatchLocation, FALSE, 2000) }

Intervals == { 1000, 2000 }

\* The instants Date() can report when an 'add' handler runs (later than
\* the timestamps of every file).
Instants == { 1, 2 }

(* ------------------------------- state --------------------------------- *)
VARIABLES
    kcMainWindow,      \* "undefined" | "window" | "null"
    appEnvInterval,    \* appEnv.ingest.interval
    ingestWatcher,     \* handle of the watcher last created, 0 = undefined
    filesToPush,       \* the pending queue
    autoScanInterval,  \* handle of the timer last armed, 0 = undefined
    watchers,          \* open chokidar watchers: handle, closure, files emitted
    timers,            \* armed interval timers: handle, closure, period
    nextHandle,        \* next watcher / timer handle
    nextId,            \* next uuid
    dirExists,         \* the watched directory exists
    watchDir,          \* files present in the watched directory
    stored,            \* files copied under <appPath>/files
    sent,              \* messages received by the main window's webContents
    uncaught,          \* an exception left a handler
    lastIngest,        \* value of the settings emission handled last, <<>> = none
    pendingAtEmission, \* ids queued at the moment an emission was handled
    sendThrew          \* the latest webContents.send threw and was caught

vars ==
    <<kcMainWindow, appEnvInterval, ingestWatcher, filesToPush, autoScanInterval,
      watchers, timers, nextHandle, nextId, dirExists, watchDir, stored,
      sent, uncaught, lastIngest, pendingAtEmission, sendThrew>>

Undefined == 0

(* ------------------------ path and mime helpers ------------------------ *)
\* a watcher created without the `ignored` option
IgnoredNothing(f) ==
    FALSE

\* chokidar option ignored: /(^|[\/\\])\../ on a path below the watched
\* directory: a segment that starts with a dot followed by any character.
Ignored(f) ==
    Len(f) >= 2 /\ f[1] = "."

\* path.basename(filePath) of a file directly below the watched directory
Basename(f) ==
    f

\* index of the last "." of a name, 0 when there is none
LastDot(f) ==
    LET dots == { i \in 1..Len(f) : f[i] = "." }
    IN  IF dots = {} THEN 0 ELSE CHOOSE i \in dots : \A j \in dots : j <= i

\* path.extname(filePath): from the last dot on, empty when there is no dot
\* or the only dot leads the name
ExtName(f) ==
    IF LastDot(f) <= 1 THEN <<>> ELSE SubSeq(f, LastDot(f), Len(f))

\* JavaScript false, as mime.lookup and mime.extension return it
MimeFalse == "false"

\* mime.lookup(filePath): the type registered for the text after the last
\* dot (for the whole name when it has no dot)
MimeLookup(f) ==
    LET ext == SubSeq(f, LastDot(f) + 1, Len(f))
    IN  IF ext = <<"t">> THEN "text/plain" ELSE MimeFalse

\* mime.extension(contentType): the first extension registered for the type
MimeExtension(contentType) ==
    IF contentType = "text/plain"
    THEN [found |-> TRUE, text |-> <<"t">>]
    ELSE [found |-> FALSE, text |-> <<>>]

JsUndefinedText ==
    <<"u", "n", "d", "e", "f", "i", "n", "e", "d">>

\* path.extname(filePath).split('.')[1] inside `.${fileExtension}`:
\* the text after the dot, or the text of undefined when extname is empty
ExtnameSplit(f) ==
    IF ExtName(f) = <<>> THEN JsUndefinedText ELSE Tail(ExtName(f))

\* lines 296-304: the extension of the content type, else of the path
FileExtension(f) ==
    LET fromType == MimeExtension(MimeLookup(f))
    IN  IF fromType.found /\ fromType.text # <<>> THEN fromType.text ELSE ExtnameSplit(f)

\* line 308: path.resolve(appEnv.appPath, 'files', newId) + `.${fileExtension}`
NewFilePath(newId, f) ==
    [dir |-> "files", id |-> newId, suffix |-> <<".">> \o FileExtension(f)]

\* the record with the three timestamps always Date(), as the FileModel
\* constructor sets them
FileModelNow(ingest, f, newId, clock) ==
    [accessTime       |-> clock,
     creationTime     |-> clock,
     modificationTime |-> clock,
     filename         |-> Basename(f),
     id               |-> [value |-> newId],
     path             |-> NewFilePath(newId, f),
     size             |-> FileStat(f).size,
     type             |-> MimeLookup(f)]

\* lines 312-321
FileModelOf(ingest, f, newId, clock) ==
    [accessTime       |-> IF ingest.preserveTimestamps THEN FileStat(f).atime ELSE clock,
     creationTime     |-> IF ingest.preserveTimestamps THEN FileStat(f).ctime ELSE clock,
     modificationTime |-> IF ingest.preserveTimestamps THEN FileStat(f).mtime ELSE clock,
     filename         |-> Basename(f),
     id               |-> [value |-> newId],
     path             |-> NewFilePath(newId, f),
     size             |-> FileStat(f).size,
     type             |-> MimeLookup(f)]

Init ==
    /\ kcMainWindow = "undefined"
    /\ appEnvInterval \in Intervals
    /\ ingestWatcher = Undefined
    /\ filesToPush = <<>>
    /\ autoScanInterval = Undefined
    /\ watchers = {}
    /\ timers = {}
    /\ nextHandle = 1
    /\ nextId = 1
    /\ dirExists \in BOOLEAN
    /\ watchDir = {}
    /\ stored = {}
    /\ sent = <<>>
    /\ uncaught = FALSE
    /\ lastIngest = <<>>
    /\ pendingAtEmission = {}
    /\ sendThrew = FALSE

(* ---------------------------- main window ------------------------------ *)
\* app.on('ready') and app.on('activate'): createMainWindow()
CreateMainWindow ==
    /\ kcMainWindow # "window"
    /\ kcMainWindow' = "window"
    /\ UNCHANGED <<appEnvInterval, ingestWatcher, filesToPush, autoScanInterval,
                   watchers, timers, nextHandle, nextId, dirExists, watchDir,
                   stored, sent, uncaught, lastIngest, pendingAtEmission, sendThrew>>

\* kcMainWindow.on('closed')
WindowClosed ==
    /\ kcMainWindow = "window"
    /\ kcMainWindow' = "null"
    /\ UNCHANGED <<appEnvInterval, ingestWatcher, filesToPush, autoScanInterval,
                   watchers, timers, nextHandle, nextId, dirExists, watchDir,
                   stored, sent, uncaught, lastIngest, pendingAtEmission, sendThrew>>

(* ---------------------------- environment ------------------------------ *)
\* The user drops a file into the watched directory.
PlaceFile(f) ==
    /\ dirExists
    /\ f \notin watchDir
    /\ Cardinality(watchDir) < MaxFiles
    /\ watchDir' = watchDir \cup {f}
    /\ UNCHANGED <<kcMainWindow, appEnvInterval, ingestWatcher, filesToPush,
                   autoScanInterval, watchers, timers, nextHandle, nextId,
                   dirExists, stored, sent, uncaught, lastIngest, pendingAtEmission, sendThrew>>

(* ----------------------- settings subscription ------------------------- *)
\* close() that leaves the watcher emitting
CloseWatcherLeak(ws, h) ==
    ws

\* ingestWatcher.close(): the watcher emits no further event
CloseWatcher(ws, h) ==
    { w \in ws : w.handle # h }

\* clearInterval that leaves the timer armed
ClearIntervalLeak(ts, h) ==
    ts

\* clearInterval(autoScanInterval): the timer fires no more
ClearInterval(ts, h) ==
    { t \in ts : t.handle # h }

\* `if (ingestWatcher) ingestWatcher.close()`
CloseIfSet(ws, h) ==
    IF h # Undefined THEN CloseWatcher(ws, h) ELSE ws

\* `!ingest || !ingest.autoscan || !ingest.autoscanLocation`
Disabling(ingest) ==
    \/ ~ingest.defined
    \/ ~ingest.autoscan
    \/ ingest.autoscanLocation = ""

\* the disable branch without its clearInterval
SubscribeDisableKeepTimer(ingest) ==
    /\ watchers' = CloseIfSet(watchers, ingestWatcher)
    /\ UNCHANGED <<ingestWatcher, filesToPush, autoScanInterval, timers, nextHandle,
                   dirExists>>

\* lines 248-254: autoscan has been disabled
SubscribeDisable(ingest) ==
    /\ watchers' = CloseIfSet(watchers, ingestWatcher)
    /\ timers' = ClearInterval(timers, autoScanInterval)
    /\ UNCHANGED <<ingestWatcher, filesToPush, autoScanInterval, nextHandle,
                   dirExists>>

\* the enable branch without `filesToPush = []`
SubscribeEnableKeepQueue(ingest) ==
    /\ nextHandle <= MaxHandles
    /\ dirExists' = TRUE
    /\ watchers' = CloseIfSet(watchers, ingestWatcher)
                      \cup {[handle |-> nextHandle, ingest |-> ingest, emitted |-> {}]}
    /\ ingestWatcher' = nextHandle
    /\ timers' = ClearInterval(timers, autoScanInterval)
                    \cup {[handle |-> nextHandle, ingest |-> ingest,
                           period |-> appEnvInterval']}
    /\ autoScanInterval' = nextHandle
    /\ nextHandle' = nextHandle + 1
    /\ UNCHANGED filesToPush

\* lines 256-357: close the old watcher and timer, reset the queue, make the
\* directory, watch it and arm the timer
SubscribeEnable(ingest) ==
    /\ nextHandle <= MaxHandles
    /\ filesToPush' = <<>>
    /\ dirExists' = TRUE
    /\ watchers' = CloseIfSet(watchers, ingestWatcher)
                      \cup {[handle |-> nextHandle, ingest |-> ingest, emitted |-> {}]}
    /\ ingestWatcher' = nextHandle
    /\ timers' = ClearInterval(timers, autoScanInterval)
                    \cup {[handle |-> nextHandle, ingest |-> ingest,
                           period |-> appEnvInterval']}
    /\ autoScanInterval' = nextHandle
    /\ nextHandle' = nextHandle + 1

\* appEnv.ingest.interval as the handler of an emission may read it: appEnv
\* was read once at start-up (line 70); whether the settings service updates
\* that object in place before it emits is outside this file, so both
\* outcomes are allowed.
GetSettingsInterval(ingest) ==
    {appEnvInterval} \cup (IF ingest.defined THEN {ingest.interval} ELSE {})

\* settingsService.ingest.subscribe((ingest) => ...): one emission handled.
Subscribe(ingest) ==
    /\ appEnvInterval' \in GetSettingsInterval(ingest)
    /\ lastIngest' = <<ingest>>
    /\ pendingAtEmission' = pendingAtEmission \cup
          { [id |-> filesToPush[i].id.value, disabling |-> Disabling(ingest)] :
              i \in 1..Len(filesToPush) }
    /\ IF Disabling(ingest) THEN SubscribeDisable(ingest) ELSE SubscribeEnable(ingest)
    /\ UNCHANGED <<kcMainWindow, nextId, watchDir, stored, sent, uncaught,
                   sendThrew>>

(* -------------------------- watcher 'add' ------------------------------ *)
\* lines 307-324 when the copy succeeded: the file is stored and queued;
\* the fs.rmSync of line 330 is commented out, the original stays
AddCopied(w, f, clock) ==
    /\ stored' = stored \cup {[path |-> NewFilePath(nextId, f), source |-> f]}
    /\ filesToPush' = Append(filesToPush, FileModelOf(w.ingest, f, nextId, clock))
    /\ UNCHANGED <<watchDir, uncaught>>

\* Add with the original removed before the copy is made (delete-then-copy)
AddDeleteFirst(w, f, statOk, copyOk, clock) ==
    /\ w \in watchers
    /\ f \in watchDir
    /\ ~Ignored(f)
    /\ f \notin w.emitted
    /\ nextId <= MaxIds
    /\ watchers' = (watchers \ {w}) \cup {[w EXCEPT !.emitted = @ \cup {f}]}
    /\ IF ~statOk
       THEN /\ uncaught' = TRUE
            /\ UNCHANGED <<nextId, stored, filesToPush, watchDir>>
       ELSE /\ nextId' = nextId + 1
            /\ watchDir' = watchDir \ {f}
            /\ IF ~copyOk
               THEN /\ uncaught' = TRUE
                    /\ UNCHANGED <<stored, filesToPush>>
               ELSE /\ stored' = stored \cup {[path |-> NewFilePath(nextId, f), source |-> f]}
                    /\ filesToPush' =
                          Append(filesToPush, FileModelOf(w.ingest, f, nextId, clock))
                    /\ UNCHANGED uncaught
    /\ UNCHANGED <<kcMainWindow, appEnvInterval, ingestWatcher, autoScanInterval,
                   timers, nextHandle, dirExists, sent, lastIngest,
                   pendingAtEmission, sendThrew>>

\* Add with the id drawn once for all events instead of once per event
AddReuseId(w, f, statOk, copyOk, clock) ==
    /\ w \in watchers
    /\ f \in watchDir
    /\ ~Ignored(f)
    /\ f \notin w.emitted
    /\ nextId <= MaxIds
    /\ watchers' = (watchers \ {w}) \cup {[w EXCEPT !.emitted = @ \cup {f}]}
    /\ IF ~statOk
       THEN /\ uncaught' = TRUE
            /\ UNCHANGED <<nextId, stored, filesToPush, watchDir>>
       ELSE /\ UNCHANGED nextId
            /\ IF ~copyOk
               THEN /\ uncaught' = TRUE
                    /\ UNCHANGED <<stored, filesToPush, watchDir>>
               ELSE AddCopied(w, f, clock)
    /\ UNCHANGED <<kcMainWindow, appEnvInterval, ingestWatcher, autoScanInterval,
                   timers, nextHandle, dirExists, sent, lastIngest,
                   pendingAtEmission, sendThrew>>

\* ingestWatcher.on('add', (filePath) => ...) of watcher w for file f, run at
\* instant `clock`.
\* fs.statSync and fs.copyFileSync throw when they fail; nothing catches.
Add(w, f, statOk, copyOk, clock) ==
    /\ w \in watchers
    /\ f \in watchDir
    /\ ~Ignored(f)
    /\ f \notin w.emitted
    /\ nextId <= MaxIds
    /\ watchers' = (watchers \ {w}) \cup {[w EXCEPT !.emitted = @ \cup {f}]}
    /\ IF ~statOk
       THEN /\ uncaught' = TRUE
            /\ UNCHANGED <<nextId, stored, filesToPush, watchDir>>
       ELSE /\ nextId' = nextId + 1
            /\ IF ~copyOk
               THEN /\ uncaught' = TRUE
                    /\ UNCHANGED <<stored, filesToPush, watchDir>>
               ELSE AddCopied(w, f, clock)
    /\ UNCHANGED <<kcMainWindow, appEnvInterval, ingestWatcher, autoScanInterval,
                   timers, nextHandle, dirExists, sent, lastIngest,
                   pendingAtEmission, sendThrew>>

(* ----------------------------- timer tick ------------------------------ *)
\* the envelopes built from the newest record to the oldest
ResponsesReversed(queue) ==
    [i \in 1..Len(queue) |->
        [error |-> "undefined", success |-> [data |-> queue[Len(queue) + 1 - i]]]]

\* lines 338-348: one envelope per queued record
Responses(queue) ==
    [i \in 1..Len(queue) |-> [error |-> "undefined", success |-> [data |-> queue[i]]]]

\* kcMainWindow.webContents.send(...) throws on an undefined or null window
SendSucceeds ==
    kcMainWindow = "window"

\* TickSend that forgets `filesToPush = []` after the send
TickSendKeepQueue(t) ==
    IF SendSucceeds
    THEN /\ sent' = Append(sent, [channel |-> "app-ingest-watcher-results",
                                  args |-> Responses(filesToPush)])
         /\ sendThrew' = FALSE
         /\ UNCHANGED filesToPush
    ELSE /\ sendThrew' = TRUE
         /\ UNCHANGED <<sent, filesToPush>>

\* TickSend whose catch also empties the queue
TickSendDropOnFailure(t) ==
    IF SendSucceeds
    THEN /\ sent' = Append(sent, [channel |-> "app-ingest-watcher-results",
                                  args |-> Responses(filesToPush)])
         /\ filesToPush' = <<>>
         /\ sendThrew' = FALSE
    ELSE /\ sendThrew' = TRUE
         /\ filesToPush' = <<>>
         /\ UNCHANGED sent

\* lines 349-354: send, then clear the queue; a failed send is caught
TickSend(t) ==
    IF SendSucceeds
    THEN /\ sent' = Append(sent, [channel |-> "app-ingest-watcher-results",
                                  args |-> Responses(filesToPush)])
         /\ filesToPush' = <<>>
         /\ sendThrew' = FALSE
    ELSE /\ sendThrew' = TRUE
         /\ UNCHANGED <<sent, filesToPush>>

\* the callback without `filesToPush.length > 0`
TickNoLengthCheck(t) ==
    /\ t \in timers
    /\ IF t.ingest.autoscan
       THEN TickSend(t)
       ELSE UNCHANGED <<sent, filesToPush, sendThrew>>
    /\ UNCHANGED <<kcMainWindow, appEnvInterval, ingestWatcher, autoScanInterval,
                   watchers, timers, nextHandle, nextId, dirExists, watchDir,
                   stored, uncaught, lastIngest, pendingAtEmission>>

\* the setInterval callback of timer t
Tick(t) ==
    /\ t \in timers
    /\ IF Len(filesToPush) > 0 /\ t.ingest.autoscan
       THEN TickSend(t)
       ELSE UNCHANGED <<sent, filesToPush, sendThrew>>
    /\ UNCHANGED <<kcMainWindow, appEnvInterval, ingestWatcher, autoScanInterval,
                   watchers, timers, nextHandle, nextId, dirExists, watchDir,
                   stored, uncaught, lastIngest, pendingAtEmission>>

(* --------------------------- specification ----------------------------- *)
Next ==
    \/ CreateMainWindow
    \/ WindowClosed
    \/ \E f \in Files : PlaceFile(f)
    \/ \E ingest \in Ingests : Subscribe(ingest)
    \/ \E w \in watchers, f \in Files, statOk \in BOOLEAN, copyOk \in BOOLEAN,
          clock \in Instants :
          Add(w, f, statOk, copyOk, clock)
    \/ \E t \in timers : Tick(t)

Spec ==
    Init /\ [][Next]_vars

\* setInterval keeps firing an armed timer
FairSpec ==
    Spec /\ WF_vars(\E t \in timers : Tick(t))

(* ------------------------- what the sink has seen ---------------------- *)
RECURSIVE Flatten(_)
Flatten(batches) ==
    IF batches = <<>> THEN <<>> ELSE Head(batches).args \o Flatten(Tail(batches))

\* every FileModel delivered so far, in delivery order
DeliveredRecords ==
    [i \in 1..Len(Flatten(sent)) |-> Flatten(sent)[i].success.data]

DeliveredIds ==
    [i \in 1..Len(DeliveredRecords) |-> DeliveredRecords[i].id.value]

QueueIds ==
    [i \in 1..Len(filesToPush) |-> filesToPush[i].id.value]

Range(s) ==
    { s[i] : i \in 1..Len(s) }

NoDuplicates(s) ==
    \A i, j \in 1..Len(s) : i # j => s[i] # s[j]

(* ------------------------------- claims -------------------------------- *)
\* C1: a non-hidden file placed once in the watched directory is delivered
\* as exactly one FileRecord over the whole run, re-binds included, with
\* filename its base name and size its byte count. Stated here is the part
\* a finite run can refute: never two or more records for the file, and
\* every record for it carries its name and size.
C1_ExactlyOneRecordPerFile ==
    \A f \in Files :
        ~Ignored(f) =>
            LET hits == { i \in 1..Len(DeliveredRecords) :
                            DeliveredRecords[i].filename = Basename(f) }
            IN  /\ Cardinality(hits) <= 1
                /\ \A i \in hits : DeliveredRecords[i].size = FileStat(f).size

\* C2: the original of a detected file leaves the watched directory only in
\* an 'add' handling that completed the copy of it: never before the copy,
\* never after a failed copy or a failed stat.
C2_DeleteOnlyAfterCopy ==
    [][\A f \in watchDir :
          f \notin watchDir' => \E s \in stored' \ stored : s.source = f]_vars

\* an 'add' handling whose copy failed: a uuid was drawn, nothing is stored,
\* the exception left the handler and the original is still in place
C2_Witness ==
    /\ uncaught
    /\ nextId > 1
    /\ stored = {}
    /\ \E w \in watchers : w.emitted # {} /\ w.emitted \subseteq watchDir

\* C3: when the 'add' handler completes with a successful copy and a record
\* appended to the queue, the original is gone from the watched directory.
C3_OriginalRemovedAfterEnqueue ==
    [][\A f \in Files :
          ( /\ \E s \in stored' \ stored : s.source = f
            /\ Len(filesToPush') = Len(filesToPush) + 1 )
          => f \notin watchDir']_vars

\* C4: a record (by id) is appended to the queue at most once, is in at most
\* one delivered batch and once in it, and is not in the queue after the
\* send that delivered it.
C4_EnqueuedAndDeliveredOnce ==
    /\ [](/\ NoDuplicates(DeliveredIds \o QueueIds)
          /\ \A i \in Range(DeliveredIds) \cup Range(QueueIds) : i < nextId)
    /\ [][\A i \in Range(QueueIds') : i \notin Range(QueueIds) => i >= nextId]_vars

\* one record delivered, a later one queued, the latest send having failed
C4_Witness ==
    /\ Len(DeliveredRecords) >= 1
    /\ Len(filesToPush) >= 1
    /\ sendThrew

\* C5: records pending when a disabling emission is handled are in no batch
\* sent afterwards: the timer is cancelled before its next tick.
C5_DisabledPendingNeverSent ==
    \A p \in pendingAtEmission : p.disabling => p.id \notin Range(DeliveredIds)

\* a record was pending at a disabling emission, and a later record has
\* been delivered since
C5_Witness ==
    \E p \in pendingAtEmission :
        p.disabling /\ \E i \in Range(DeliveredIds) : i > p.id

\* no emission handled yet, or the one handled last disables autoscan
DisabledNow ==
    lastIngest = <<>> \/ Disabling(lastIngest[1])

\* C6: while the emission handled last is a disabling one (and before any
\* emission), no watcher is open and no timer is armed; no 'add' is handled,
\* nothing is enqueued and nothing is sent.
C6_DisabledMeansIdle ==
    /\ [](DisabledNow => watchers = {} /\ timers = {})
    /\ [][DisabledNow =>
            /\ sent' = sent
            /\ stored' = stored
            /\ nextId' = nextId
            /\ Range(QueueIds') \subseteq Range(QueueIds)]_vars

\* disabled after a watcher had been bound, a non-hidden file waiting in the
\* directory
C6_Witness ==
    /\ lastIngest # <<>>
    /\ Disabling(lastIngest[1])
    /\ ingestWatcher # Undefined
    /\ \E f \in watchDir : ~Ignored(f) /\ \A s \in stored : s.source # f

\* ids that were in the queue when some emission was handled
DroppedIds ==
    { p.id : p \in pendingAtEmission }

\* C7: a send that fails in a tick leaves the queue as it was and does not
\* leave the tick; the records are offered again, and once the window stays
\* available they are delivered unless an emission intervenes: a record
\* leaves the queue only delivered or dropped by an emission, and again and
\* again the queue holds nothing but records an emission has dropped.
C7_FailedSendKeepsQueue ==
    /\ [][(sendThrew' /\ ~sendThrew) =>
            /\ filesToPush' = filesToPush
            /\ sent' = sent
            /\ uncaught' = uncaught
            /\ timers' = timers]_vars
    /\ [][\A i \in Range(QueueIds) :
            i \notin Range(QueueIds') => i \in Range(DeliveredIds') \/ i \in DroppedIds']_vars
    /\ (<>[]SendSucceeds) => []<>(Range(QueueIds) \subseteq DroppedIds)

\* the latest send threw on a closed window, the records it held back are
\* still queued, the timer is armed and the window is back
C7_Witness ==
    /\ sendThrew
    /\ filesToPush # <<>>
    /\ timers # {}
    /\ ~uncaught
    /\ SendSucceeds

\* C8: a tick that sends leaves the queue empty, and from an empty queue a
\* tick sends nothing.
C8_SendEmptiesQueue ==
    [][/\ sent' # sent => filesToPush' = <<>>
       /\ filesToPush = <<>> => sent' = sent]_vars

\* just after a delivery: queue empty, timer armed, window available
C8_Witness ==
    /\ sent # <<>>
    /\ filesToPush = <<>>
    /\ timers # {}
    /\ SendSucceeds

Handles(set) ==
    { x.handle : x \in set }

\* the watcher and timer of before the step are gone after it
TornDown ==
    /\ Handles(watchers') \cap Handles(watchers) = {}
    /\ Handles(timers') \cap Handles(timers) = {}

\* a new watcher and a new timer exist after the step, bound to `ingest`
Established(ingest) ==
    /\ \E w \in watchers' :
          /\ w.handle \notin Handles(watchers)
          /\ w.handle = ingestWatcher'
          /\ w.ingest = ingest
          /\ w.emitted = {}
    /\ \E t \in timers' :
          /\ t.handle \notin Handles(timers)
          /\ t.handle = autoScanInterval'
          /\ t.ingest = ingest

C10_AtMostOneWatcherAndTimer ==
    /\ Cardinality(watchers) <= 1
    /\ Cardinality(timers) <= 1
    /\ \A w \in watchers : w.handle = ingestWatcher /\ lastIngest = <<w.ingest>>
    /\ \A t \in timers : t.handle = autoScanInterval /\ lastIngest = <<t.ingest>>

\* after a re-bind: a second watcher and timer exist, holding events
C10_Witness ==
    /\ nextHandle > 2
    /\ \E w \in watchers : w.emitted # {}
    /\ timers # {}

\* C11: a failed stat inside the 'add' handler is handled locally: nothing
\* is enqueued, copied or deleted, no exception leaves the handler, and the
\* watcher and the timer stay active.
C11_StatFailureHandledLocally ==
    [][\A w \in watchers, f \in Files, copyOk \in BOOLEAN, clock \in Instants :
          Add(w, f, FALSE, copyOk, clock) =>
              /\ filesToPush' = filesToPush
              /\ stored' = stored
              /\ watchDir' = watchDir
              /\ timers' = timers
              /\ Handles(watchers') = Handles(watchers)
              /\ uncaught' = uncaught]_vars

\* the path of every record in the queue or delivered is a completed copy
QueuedRecordsAreStored ==
    \A r \in Range(filesToPush) \cup Range(DeliveredRecords) :
        \E s \in stored : s.path = r.path /\ s.source = r.filename

\* C12: a failed copy skips the file as a locally recovered failure: no
\* record for it is queued or delivered, no exception leaves the 'add'
\* handler, and the watcher and the timer stay active.
C12_CopyFailureHandledLocally ==
    /\ []QueuedRecordsAreStored
    /\ [][\A w \in watchers, f \in Files, clock \in Instants :
            Add(w, f, TRUE, FALSE, clock) =>
                /\ filesToPush' = filesToPush
                /\ stored' = stored
                /\ timers' = timers
                /\ Handles(watchers') = Handles(watchers)
                /\ uncaught' = uncaught]_vars

\* C13: for a file whose name begins with '.', no 'add' handling occurs and
\* no record is ever enqueued or delivered, whatever the configuration.
C13_DotFilesNeverIngested ==
    /\ [](\A f \in Files :
            f[1] = "." =>
                /\ \A w \in watchers : f \notin w.emitted
                /\ \A s \in stored : s.source # f
                /\ \A r \in Range(filesToPush) \cup Range(DeliveredRecords) :
                      r.filename # Basename(f))
    /\ [][\A w \in watchers, f \in Files, statOk \in BOOLEAN, copyOk \in BOOLEAN,
            clock \in Instants :
            f[1] = "." => ~Add(w, f, statOk, copyOk, clock)]_vars

\* a dot file lies in the watched directory beside a file that an open
\* watcher has reported
C13_Witness ==
    /\ \E f \in watchDir : f[1] = "."
    /\ \E w \in watchers : w.emitted # {}

\* C14: over the whole run any two records created by 'add' handling have
\* different id.value and different destination paths, also when the same
\* source path is detected twice.
C14_IdsAndPathsUnique ==
    /\ [](\A s1, s2 \in stored : s1 # s2 => s1.path # s2.path /\ s1.path.id # s2.path.id)
    /\ [][Len(filesToPush') = Len(filesToPush) + 1 =>
            LET r == filesToPush'[Len(filesToPush')]
            IN  /\ r.path.id = r.id.value
                /\ \A s \in stored : s.path # r.path /\ s.path.id # r.id.value
                /\ \A q \in Range(filesToPush) \cup Range(DeliveredRecords) :
                      q.id.value # r.id.value /\ q.path # r.path]_vars

\* the same source file has been relocated twice, to two destinations
C14_Witness ==
    \E s1, s2 \in stored : s1.source = s2.source /\ s1.path # s2.path

\* the three timestamps of record r are the stat timestamps of file f
TimesPreserved(r, f) ==
    /\ r.accessTime = FileStat(f).atime
    /\ r.creationTime = FileStat(f).ctime
    /\ r.modificationTime = FileStat(f).mtime

\* the three timestamps of record r are the instant `clock`
TimesAre(r, clock) ==
    /\ r.accessTime = clock
    /\ r.creationTime = clock
    /\ r.modificationTime = clock

\* C15: a record carries the stat timestamps of the original when
\* preserveTimestamps of the configuration in force at detection (the
\* emission handled last) is true, and the instant of relocation three
\* times when it is false; every delivered record is of one of the two kinds.
C15_TimestampsFollowSetting ==
    /\ [][\A w \in watchers, f \in Files, clock \in Instants :
            Add(w, f, TRUE, TRUE, clock) =>
                LET r == filesToPush'[Len(filesToPush')]
                IN  IF lastIngest[1].preserveTimestamps
                    THEN TimesPreserved(r, f)
                    ELSE TimesAre(r, clock)]_vars
    /\ [](\A r \in Range(DeliveredRecords) :
            \/ TimesPreserved(r, r.filename)
            \/ \E clock \in Instants : TimesAre(r, clock))

\* delivered so far: one record with the original's timestamps and one with
\* the relocation instant, made under two configurations
C15_Witness ==
    \E r1, r2 \in Range(DeliveredRecords) :
        /\ TimesPreserved(r1, r1.filename)
        /\ \E clock \in Instants : TimesAre(r2, clock)

\* C16: a tick that sends appends exactly one message on channel
\* 'app-ingest-watcher-results' holding one envelope per record queued at the
\* start of the tick, in queue order, with error undefined and success.data
\* the record.
C16_BatchIsTheQueueInOrder ==
    [][sent' # sent =>
        /\ Len(sent') = Len(sent) + 1
        /\ SubSeq(sent', 1, Len(sent)) = sent
        /\ LET m == sent'[Len(sent')]
           IN  /\ m.channel = "app-ingest-watcher-results"
               /\ Len(m.args) = Len(filesToPush)
               /\ \A i \in 1..Len(filesToPush) :
                     /\ m.args[i].error = "undefined"
                     /\ m.args[i].success.data = filesToPush[i]]_vars

\* a batch of two records has been sent
C16_Witness ==
    \E i \in 1..Len(sent) :
        /\ Len(sent[i].args) >= 2
        /\ sent[i].args[1].success.data.id.value < sent[i].args[2].success.data.id.value

\* C17: no step sends while the queue is empty or autoscan is disabled, a
\* tick leaves the watcher and the timer as they were and an empty queue
\* empty, and every batch ever sent holds at least one envelope.
C17_IdleTickSendsNothing ==
    /\ [][(filesToPush = <<>> \/ DisabledNow) => sent' = sent]_vars
    /\ [][\A t \in timers :
            Tick(t) =>
                /\ watchers' = watchers
                /\ timers' = timers
                /\ (filesToPush = <<>> \/ ~t.ingest.autoscan) =>
                       (filesToPush' = filesToPush /\ sent' = sent)]_vars
    /\ [](\A i \in 1..Len(sent) : Len(sent[i].args) > 0)

\* a timer is armed over an empty queue with the window available, after a
\* file was relocated and nothing was ever sent
C17_Witness ==
    /\ timers # {}
    /\ filesToPush = <<>>
    /\ SendSucceeds
    /\ stored # {}
    /\ sent = <<>>

\* C18: the period of every armed timer is the interval of the emission
\* that armed it.
C18_PeriodIsEmittedInterval ==
    \A t \in timers : t.period = t.ingest.interval

\* the suffix the destination of file f is to carry: a dot and the extension
\* of the content type, else the suffix of the original path, else nothing
SuffixOf(f) ==
    LET fromType == MimeExtension(MimeLookup(f))
    IN  IF fromType.found /\ fromType.text # <<>>
        THEN <<".">> \o fromType.text
        ELSE IF Len(ExtName(f)) >= 2 THEN ExtName(f) ELSE <<>>

\* C19: every relocated file lies under files/ of the storage root, named by
\* its new id followed by a dot and the extension of the content type, else
\* of the original path; when neither yields an extension the name is the id
\* alone.
C19_DestinationPath ==
    \A s \in stored :
        /\ s.path.dir = "files"
        /\ s.path.id \in 1..MaxIds
        /\ s.path.suffix = SuffixOf(s.source)

\* C20: a record that was in the queue when an emission was handled is never
\* delivered; a disabling emission clears the timer and keeps the queue, an
\* enabling one empties the queue and arms a new timer, so no armed timer
\* ever sees such a record; the copy made for it stays in the store.
C20_QueuedAtEmissionNeverDelivered ==
    /\ [](DroppedIds \cap Range(DeliveredIds) = {})
    /\ [](timers # {} => Range(QueueIds) \cap DroppedIds = {})
    /\ [](\A p \in pendingAtEmission : \E s \in stored : s.path.id = p.id)
    /\ [][\A ingest \in Ingests :
            Subscribe(ingest) =>
                /\ Range(QueueIds) \subseteq DroppedIds'
                /\ IF Disabling(ingest)
                   THEN filesToPush' = filesToPush /\ timers' = {}
                   ELSE /\ filesToPush' = <<>>
                        /\ Handles(timers') = {autoScanInterval'}
                        /\ autoScanInterval' \notin Handles(timers)]_vars

\* a record was queued when an enabling emission was handled, and a record
\* relocated after that emission has been delivered
C20_Witness ==
    \E p \in pendingAtEmission :
        /\ ~p.disabling
        /\ p.id \notin Range(DeliveredIds)
        /\ \E s \in stored : s.path.id = p.id
        /\ \E i \in Range(DeliveredIds) : i > p.id

====
